---------------------------- MODULE Spec2Model ----------------------------
(*************************************************************************)
(* bedrock-updater: updateMinecraftServer (src/src/index.js) and the CLI *)
(* entry point (src/bin/bedrock-updater.js).                             *)
(*                                                                       *)
(* A run is one invocation of updateMinecraftServer in its own process.  *)
(* Every awaited call of the function is one step of the run; a call     *)
(* that can be rejected has its outcome drawn with \E.  Strings that the *)
(* code trims or compares are sequences of symbols.                      *)
(*************************************************************************)
EXTENDS Naturals, Sequences, FiniteSets

\* ----------------------------------------------------------------------
\* Bounds
\* ----------------------------------------------------------------------

\* Largest value Date.now() takes in the model.
MaxClock == 2

\* ----------------------------------------------------------------------
\* Values
\* ----------------------------------------------------------------------

\* The processes that may run the updater (two cron slots).
Runs == {"r1", "r2"}

\* White space, as String.prototype.trim() sees it.
WhiteSpace == {"\n", " "}

\* File names the download page can link to (the basename of the link).
FileNames == {<<"1">>, <<"2">>}

\* Links the page can show: a[href*="bedrockdedicatedserver/bin-linux/bedrock-server-"].
Links == [dir : {"bin-linux"}, base : FileNames]

\* path.basename(downloadLink)
Basename(link) == link.base

\* null, as returned by getCurrentVersion.
Null == <<"null">>

\* The version file does not exist.
Absent == <<"absent">>

\* No file name resolved yet / no extraction directory made yet.
NoName == <<>>
NoDir == MaxClock + 1

\* Contents the version file can have when the updater is first run.
InitialRecords == {Absent, <<>>, <<"\n">>, <<"1">>, <<"1", "\n">>}

\* String.prototype.trim()
RECURSIVE TrimLeft(_)
TrimLeft(s) ==
  IF s # <<>> /\ Head(s) \in WhiteSpace THEN TrimLeft(Tail(s)) ELSE s

RECURSIVE TrimRight(_)
TrimRight(s) ==
  IF s # <<>> /\ s[Len(s)] \in WhiteSpace
    THEN TrimRight(SubSeq(s, 1, Len(s) - 1))
    ELSE s

Trim(s) == TrimRight(TrimLeft(s))

\* JavaScript truthiness of a string-or-null value.
Truthy(v) == v # Null /\ v # <<>>

\* One entry of a run's command record: the command execAndLog was given
\* ("exists" for the fs.existsSync of line 223, "write" for the
\* fs.promises.writeFile of saveVersion) and whether it succeeded.
\* "restart" is the `systemctl start` of the failure handler.
Cmd(c, ok) == [c |-> c, ok |-> ok]

\* ----------------------------------------------------------------------
\* State
\* ----------------------------------------------------------------------

VARIABLES
  versionFile,    \* content of VERSION_FILE, or Absent
  service,        \* state of the systemd unit: "running" | "stopped"
  staged,         \* file names whose archive /tmp/<filename> exists
  now,            \* Date.now()
  last,           \* what is known of the run that ended most recently
  pc,             \* per run: the statement it is at
  filename,       \* per run: const filename (line 191)
  currentVersion, \* per run: const currentVersion (line 194)
  extractDir,     \* per run: const extractDir (line 215), as the clock value
  cmds,           \* per run: commands and file operations issued, in order
  verified,       \* per run: result of the read-back in saveVersion
  err,            \* per run: the error being thrown
  reported,       \* per run: the error the outer catch logged (line 276)
  ret,            \* per run: {} or {v}, v the value of the return executed
  promise,        \* per run: "pending" | "resolved" (with ret) | "rejected"
  exitStatus      \* per run: {} or {code}, code given to process.exit

globals == <<versionFile, service, staged, now, last>>
locals == <<pc, filename, currentVersion, extractDir, cmds, verified, err,
            reported, ret, promise, exitStatus>>
vars == <<globals, locals>>

NoErr == "none"
NoRun ==
  [fn |-> NoName, ret |-> {}, write |-> "none", new |-> FALSE,
   accurate |-> FALSE, killed |-> FALSE]

Init ==
  /\ versionFile \in InitialRecords
  /\ service = "running"
  /\ staged = {}
  /\ now = 0
  /\ last = NoRun
  /\ pc = [r \in Runs |-> "idle"]
  /\ filename = [r \in Runs |-> NoName]
  /\ currentVersion = [r \in Runs |-> Null]
  /\ extractDir = [r \in Runs |-> NoDir]
  /\ cmds = [r \in Runs |-> <<>>]
  /\ verified = [r \in Runs |-> "none"]
  /\ err = [r \in Runs |-> NoErr]
  /\ reported = [r \in Runs |-> NoErr]
  /\ ret = [r \in Runs |-> {}]
  /\ promise = [r \in Runs |-> "pending"]
  /\ exitStatus = [r \in Runs |-> {}]

\* ----------------------------------------------------------------------
\* Helpers
\* ----------------------------------------------------------------------

Goto(r, label) == pc' = [pc EXCEPT ![r] = label]

\* execAndLog(command): the command is issued and its outcome recorded.
Issue(r, c, ok) == cmds' = [cmds EXCEPT ![r] = Append(@, Cmd(c, ok))]

\* throw e inside the outer try: control reaches the catch of line 275.
Throw(r, e) ==
  /\ err' = [err EXCEPT ![r] = e]
  /\ Goto(r, "catch")

\* getCurrentVersion(): the trimmed content, or null when the file does not
\* exist or the read fails.
GetCurrentVersion(file, readOk) ==
  IF file # Absent /\ readOk THEN Trim(file) ELSE Null

\* Run r issued command c with outcome ok.
Has(r, c, ok) == \E i \in 1..Len(cmds[r]) : cmds[r][i] = Cmd(c, ok)

\* How often run r issued command c.
Count(r, c) == Cardinality({i \in 1..Len(cmds[r]) : cmds[r][i].c = c})

\* What became of run r's write of the version file.
WriteOutcome(r) ==
  IF Has(r, "write", TRUE) THEN "ok"
  ELSE IF Has(r, "write", FALSE) THEN "failed"
  ELSE "none"

\* Statements before the comparison of line 199 has been made.
BeforeComparison ==
  {"idle", "launch", "goto", "radio", "checkbox", "link", "readVersion"}

\* No run other than r has a process.
OthersIdle(r) == \A q \in Runs \ {r} : pc[q] = "idle"

\* ----------------------------------------------------------------------
\* The link resolver part of updateMinecraftServer
\* ----------------------------------------------------------------------

\* A scheduler that does not overlap invocations starts the updater.
Start(r) ==
  /\ pc[r] = "idle"
  /\ OthersIdle(r)
  /\ Goto(r, "launch")
  /\ UNCHANGED <<globals, filename, currentVersion, extractDir, cmds,
                 verified, err, reported, ret, promise, exitStatus>>

\* await puppeteer.launch(...): outside the try, a rejection rejects the
\* promise of updateMinecraftServer and no finally block runs.
Launch(r) ==
  /\ pc[r] = "launch"
  /\ \E ok \in BOOLEAN :
       IF ok
         THEN /\ Goto(r, "goto")
              /\ UNCHANGED promise
         ELSE /\ Goto(r, "settled")
              /\ promise' = [promise EXCEPT ![r] = "rejected"]
  /\ UNCHANGED <<globals, filename, currentVersion, extractDir, cmds,
                 verified, err, reported, ret, exitStatus>>

\* newPage, setViewport, setUserAgent, goto, waitForSelector(radio).
Navigate(r) ==
  /\ pc[r] = "goto"
  /\ \E ok \in BOOLEAN :
       IF ok
         THEN Goto(r, "radio") /\ UNCHANGED err
         ELSE Throw(r, "navigation")
  /\ UNCHANGED <<globals, filename, currentVersion, extractDir, cmds,
                 verified, reported, ret, promise, exitStatus>>

\* The Linux radio button, by value and then by label text.
SelectLinux(r) ==
  /\ pc[r] = "radio"
  /\ \E byValue \in BOOLEAN, byLabel \in BOOLEAN :
       LET linuxRadioFound == byValue \/ byLabel IN
       IF linuxRadioFound
         THEN Goto(r, "checkbox") /\ UNCHANGED err
         ELSE Throw(r, "Could not find Linux/Ubuntu option")
  /\ UNCHANGED <<globals, filename, currentVersion, extractDir, cmds,
                 verified, reported, ret, promise, exitStatus>>

\* The first checkbox of the page is clicked.
AcceptEula(r) ==
  /\ pc[r] = "checkbox"
  /\ \E checkboxFound \in BOOLEAN :
       IF checkboxFound
         THEN Goto(r, "link") /\ UNCHANGED err
         ELSE Throw(r, "Could not find agreement checkbox")
  /\ UNCHANGED <<globals, filename, currentVersion, extractDir, cmds,
                 verified, reported, ret, promise, exitStatus>>

\* waitForSelector(link) and page.evaluate: the link's href or null;
\* filename is path.basename of the link.
GetLink(r) ==
  /\ pc[r] = "link"
  /\ \/ /\ Throw(r, "waitForSelector timeout")
        /\ UNCHANGED filename
     \/ /\ Throw(r, "Download link not found")
        /\ UNCHANGED filename
     \/ \E downloadLink \in Links :
          /\ filename' = [filename EXCEPT ![r] = Basename(downloadLink)]
          /\ Goto(r, "readVersion")
          /\ UNCHANGED err
  /\ UNCHANGED <<globals, currentVersion, extractDir, cmds,
                 verified, reported, ret, promise, exitStatus>>

\* Faulty variant: a failed read of the version file is thrown on.
ReadVersion_RaisesOnReadError(r) ==
  /\ pc[r] = "readVersion"
  /\ \E readOk \in BOOLEAN :
       LET v == GetCurrentVersion(versionFile, readOk) IN
       IF versionFile # Absent /\ ~readOk
         THEN /\ Throw(r, "readFile")
              /\ UNCHANGED <<currentVersion, ret>>
         ELSE /\ currentVersion' = [currentVersion EXCEPT ![r] = v]
              /\ UNCHANGED err
              /\ IF Truthy(v) /\ v = filename[r]
                   THEN /\ ret' = [ret EXCEPT ![r] = {0}]
                        /\ Goto(r, "finally")
                   ELSE /\ Goto(r, "curl")
                        /\ UNCHANGED ret
  /\ UNCHANGED <<globals, filename, extractDir, cmds,
                 verified, reported, promise, exitStatus>>

\* Faulty variant: the comparison is made but the function does not return.
ReadVersion_NoReturn(r) ==
  /\ pc[r] = "readVersion"
  /\ \E readOk \in BOOLEAN :
       currentVersion' = [currentVersion EXCEPT ![r] =
                            GetCurrentVersion(versionFile, readOk)]
  /\ Goto(r, "curl")
  /\ UNCHANGED <<globals, filename, extractDir, cmds,
                 verified, err, reported, ret, promise, exitStatus>>

\* await getCurrentVersion() and the comparison of line 199: an equal,
\* non-empty current version returns 0 from inside the try.
ReadVersion(r) ==
  /\ pc[r] = "readVersion"
  /\ \E readOk \in BOOLEAN :
       LET v == GetCurrentVersion(versionFile, readOk) IN
       /\ currentVersion' = [currentVersion EXCEPT ![r] = v]
       /\ IF Truthy(v) /\ v = filename[r]
            THEN /\ ret' = [ret EXCEPT ![r] = {0}]
                 /\ Goto(r, "finally")
            ELSE /\ Goto(r, "curl")
                 /\ UNCHANGED ret
  /\ UNCHANGED <<globals, filename, extractDir, cmds,
                 verified, err, reported, promise, exitStatus>>

\* ----------------------------------------------------------------------
\* Download, extraction and validation (lines 204-228, 258-260)
\* ----------------------------------------------------------------------

\* curl -L ... -o /tmp/<filename>.  A failed transfer may leave a partial
\* file behind.
Curl(r) ==
  /\ pc[r] = "curl"
  /\ \E ok \in BOOLEAN, partial \in BOOLEAN :
       /\ Issue(r, "curl", ok)
       /\ staged' = IF ok \/ partial THEN staged \cup {filename[r]} ELSE staged
       /\ IF ok
            THEN Goto(r, "mkdir") /\ UNCHANGED err
            ELSE Throw(r, "curl")
  /\ UNCHANGED <<versionFile, service, now, last, filename, currentVersion,
                 extractDir, verified, reported, ret, promise, exitStatus>>

\* extractDir = `/tmp/minecraft_extract_${Date.now()}`; mkdir -p extractDir.
Mkdir(r) ==
  /\ pc[r] = "mkdir"
  /\ extractDir' = [extractDir EXCEPT ![r] = now]
  /\ \E ok \in BOOLEAN :
       /\ Issue(r, "mkdir", ok)
       /\ IF ok
            THEN Goto(r, "unzip") /\ UNCHANGED err
            ELSE Throw(r, "mkdir")
  /\ UNCHANGED <<globals, filename, currentVersion,
                 verified, reported, ret, promise, exitStatus>>

\* Faulty variant: a failed unzip removes the temporary files before it
\* throws.
Unzip_CleansUpOnFailure(r) ==
  /\ pc[r] = "unzip"
  /\ \E ok \in BOOLEAN :
       /\ ok => filename[r] \in staged
       /\ IF ok
            THEN /\ Issue(r, "unzip", TRUE)
                 /\ Goto(r, "exists")
                 /\ UNCHANGED <<err, staged>>
            ELSE /\ cmds' = [cmds EXCEPT ![r] =
                               Append(Append(@, Cmd("unzip", FALSE)),
                                      Cmd("rm", TRUE))]
                 /\ staged' = staged \ {filename[r]}
                 /\ Throw(r, "unzip")
  /\ UNCHANGED <<versionFile, service, now, last, filename, currentVersion,
                 extractDir, verified, reported, ret, promise, exitStatus>>

\* unzip -q /tmp/<filename> -d extractDir: succeeds only on an archive that
\* is there.
Unzip(r) ==
  /\ pc[r] = "unzip"
  /\ \E ok \in BOOLEAN :
       /\ ok => filename[r] \in staged
       /\ Issue(r, "unzip", ok)
       /\ IF ok
            THEN Goto(r, "exists") /\ UNCHANGED err
            ELSE Throw(r, "unzip")
  /\ UNCHANGED <<globals, filename, currentVersion, extractDir,
                 verified, reported, ret, promise, exitStatus>>

\* Faulty variant: the result of the existence check is not acted on.
CheckExecutable_IgnoresResult(r) ==
  /\ pc[r] = "exists"
  /\ \E found \in BOOLEAN : Issue(r, "exists", found)
  /\ Goto(r, "stop")
  /\ UNCHANGED <<globals, filename, currentVersion, extractDir,
                 verified, err, reported, ret, promise, exitStatus>>

\* fs.existsSync(`${extractDir}/bedrock_server`), else the throw of line 259.
CheckExecutable(r) ==
  /\ pc[r] = "exists"
  /\ \E found \in BOOLEAN :
       /\ Issue(r, "exists", found)
       /\ IF found
            THEN Goto(r, "stop") /\ UNCHANGED err
            ELSE Throw(r, "bedrock_server executable not found")
  /\ UNCHANGED <<globals, filename, currentVersion, extractDir,
                 verified, reported, ret, promise, exitStatus>>

\* ----------------------------------------------------------------------
\* Stop, replace, start, persist (lines 226-257)
\* ----------------------------------------------------------------------

\* Faulty variant: the executable is replaced without stopping the service.
StopService_Skipped(r) ==
  /\ pc[r] = "stop"
  /\ Goto(r, "cp")
  /\ UNCHANGED <<globals, filename, currentVersion, extractDir, cmds,
                 verified, err, reported, ret, promise, exitStatus>>

\* Faulty variant: a failed systemctl stop is not acted on.
StopService_IgnoresFailure(r) ==
  /\ pc[r] = "stop"
  /\ \E ok \in BOOLEAN :
       /\ Issue(r, "stop", ok)
       /\ service' = IF ok THEN "stopped" ELSE service
  /\ Goto(r, "cp")
  /\ UNCHANGED <<versionFile, staged, now, last, filename, currentVersion,
                 extractDir, verified, err, reported, ret, promise,
                 exitStatus>>

\* Faulty variant: systemctl stop is inside the inner try, so its failure
\* reaches the handler that starts the service.
StopService_InsideTry(r) ==
  /\ pc[r] = "stop"
  /\ \E ok \in BOOLEAN :
       /\ Issue(r, "stop", ok)
       /\ service' = IF ok THEN "stopped" ELSE service
       /\ IF ok
            THEN Goto(r, "cp") /\ UNCHANGED err
            ELSE /\ err' = [err EXCEPT ![r] = "stop"]
                 /\ Goto(r, "restart")
  /\ UNCHANGED <<versionFile, staged, now, last, filename, currentVersion,
                 extractDir, verified, reported, ret, promise, exitStatus>>

\* systemctl stop: before the inner try, so a failure goes straight to the
\* catch of line 268 and on to line 275.
StopService(r) ==
  /\ pc[r] = "stop"
  /\ \E ok \in BOOLEAN :
       /\ Issue(r, "stop", ok)
       /\ service' = IF ok THEN "stopped" ELSE service
       /\ IF ok
            THEN Goto(r, "cp") /\ UNCHANGED err
            ELSE Throw(r, "stop")
  /\ UNCHANGED <<versionFile, staged, now, last, filename, currentVersion,
                 extractDir, verified, reported, ret, promise, exitStatus>>

\* throw inside the inner try: control reaches the catch of line 245.
ThrowUpdateError(r, e) ==
  /\ err' = [err EXCEPT ![r] = e]
  /\ Goto(r, "restart")

\* cp extractDir/bedrock_server serverPath
CopyExecutable(r) ==
  /\ pc[r] = "cp"
  /\ \E ok \in BOOLEAN :
       /\ Issue(r, "cp", ok)
       /\ IF ok
            THEN Goto(r, "chmod") /\ UNCHANGED err
            ELSE ThrowUpdateError(r, "cp")
  /\ UNCHANGED <<globals, filename, currentVersion, extractDir,
                 verified, reported, ret, promise, exitStatus>>

\* chmod +x serverPath
Chmod(r) ==
  /\ pc[r] = "chmod"
  /\ \E ok \in BOOLEAN :
       /\ Issue(r, "chmod", ok)
       /\ IF ok
            THEN Goto(r, "start") /\ UNCHANGED err
            ELSE ThrowUpdateError(r, "chmod")
  /\ UNCHANGED <<globals, filename, currentVersion, extractDir,
                 verified, reported, ret, promise, exitStatus>>

\* Faulty variant: a failed systemctl start is ignored and the version is saved.
StartService_IgnoresFailure(r) ==
  /\ pc[r] = "start"
  /\ \E ok \in BOOLEAN :
       /\ Issue(r, "start", ok)
       /\ service' = IF ok THEN "running" ELSE service
       /\ Goto(r, "save")
  /\ UNCHANGED <<versionFile, staged, now, last, filename, currentVersion,
                 extractDir, verified, err, reported, ret, promise,
                 exitStatus>>

\* systemctl start (line 238)
StartService(r) ==
  /\ pc[r] = "start"
  /\ \E ok \in BOOLEAN :
       /\ Issue(r, "start", ok)
       /\ service' = IF ok THEN "running" ELSE service
       /\ IF ok
            THEN Goto(r, "save") /\ UNCHANGED err
            ELSE ThrowUpdateError(r, "start")
  /\ UNCHANGED <<versionFile, staged, now, last, filename, currentVersion,
                 extractDir, verified, reported, ret, promise, exitStatus>>

\* Faulty variant: saveVersion lets a rejected writeFile through.
SaveVersionWrite_Raises(r) ==
  /\ pc[r] = "save"
  /\ \E ok \in BOOLEAN :
       /\ Issue(r, "write", ok)
       /\ versionFile' = IF ok THEN filename[r] ELSE versionFile
       /\ IF ok
            THEN Goto(r, "verify") /\ UNCHANGED err
            ELSE ThrowUpdateError(r, "write")
  /\ UNCHANGED <<service, staged, now, last, filename, currentVersion,
                 extractDir, verified, reported, ret, promise, exitStatus>>

\* Faulty variant: the version read at the start is written, not the new one.
SaveVersionWrite_WritesCurrent(r) ==
  /\ pc[r] = "save"
  /\ \E ok \in BOOLEAN :
       /\ Issue(r, "write", ok)
       /\ versionFile' = IF ok THEN currentVersion[r] ELSE versionFile
       /\ Goto(r, IF ok THEN "verify" ELSE "cleanup")
  /\ UNCHANGED <<service, staged, now, last, filename, currentVersion,
                 extractDir, verified, err, reported, ret, promise,
                 exitStatus>>

\* Faulty variant: downloadPath (`/tmp/${filename}`) is written, not filename.
SaveVersionWrite_WritesPath(r) ==
  /\ pc[r] = "save"
  /\ \E ok \in BOOLEAN :
       /\ Issue(r, "write", ok)
       /\ versionFile' = IF ok THEN <<"/tmp/">> \o filename[r] ELSE versionFile
       /\ Goto(r, IF ok THEN "verify" ELSE "cleanup")
  /\ UNCHANGED <<service, staged, now, last, filename, currentVersion,
                 extractDir, verified, err, reported, ret, promise,
                 exitStatus>>

\* saveVersion(filename), first half: fs.promises.writeFile.  A rejection is
\* caught inside saveVersion (line 88) and only logged.
SaveVersionWrite(r) ==
  /\ pc[r] = "save"
  /\ \E ok \in BOOLEAN :
       /\ Issue(r, "write", ok)
       /\ versionFile' = IF ok THEN filename[r] ELSE versionFile
       /\ Goto(r, IF ok THEN "verify" ELSE "cleanup")
  /\ UNCHANGED <<service, staged, now, last, filename, currentVersion,
                 extractDir, verified, err, reported, ret, promise,
                 exitStatus>>

\* saveVersion(filename), second half: the read-back through
\* getCurrentVersion and the comparison of line 83; a mismatch is logged.
SaveVersionVerify(r) ==
  /\ pc[r] = "verify"
  /\ \E readOk \in BOOLEAN :
       LET savedVersion == GetCurrentVersion(versionFile, readOk) IN
       verified' = [verified EXCEPT ![r] =
                      IF savedVersion = filename[r] THEN "ok" ELSE "mismatch"]
  /\ Goto(r, "cleanup")
  /\ UNCHANGED <<globals, filename, currentVersion, extractDir, cmds,
                 err, reported, ret, promise, exitStatus>>

\* Faulty variant: the handler rethrows without starting the service.
RestartAfterError_NoRestart(r) ==
  /\ pc[r] = "restart"
  /\ Throw(r, err[r])
  /\ UNCHANGED <<globals, filename, currentVersion, extractDir, cmds,
                 verified, reported, ret, promise, exitStatus>>

\* Faulty variant: a failed restart is thrown in place of the original error.
RestartAfterError_MasksError(r) ==
  /\ pc[r] = "restart"
  /\ \E ok \in BOOLEAN :
       /\ Issue(r, "restart", ok)
       /\ service' = IF ok THEN "running" ELSE service
       /\ Throw(r, IF ok THEN err[r] ELSE "restart")
  /\ UNCHANGED <<versionFile, staged, now, last, filename, currentVersion,
                 extractDir, verified, reported, ret, promise, exitStatus>>

\* The catch of line 245: one `systemctl start`, its failure only logged,
\* then throw updateError.
RestartAfterError(r) ==
  /\ pc[r] = "restart"
  /\ \E ok \in BOOLEAN :
       /\ Issue(r, "restart", ok)
       /\ service' = IF ok THEN "running" ELSE service
  /\ Throw(r, err[r])
  /\ UNCHANGED <<versionFile, staged, now, last, filename, currentVersion,
                 extractDir, verified, reported, ret, promise, exitStatus>>

\* ----------------------------------------------------------------------
\* Cleanup and the ends of the function (lines 262-284)
\* ----------------------------------------------------------------------

\* Faulty variant: the cleanup waits while another run with the same file
\* name is between its download and its extraction.
Cleanup_WaitsForOthers(r) ==
  /\ pc[r] = "cleanup"
  /\ \A q \in Runs \ {r} :
       ~(filename[q] = filename[r] /\ pc[q] \in {"mkdir", "unzip"})
  /\ \E ok \in BOOLEAN :
       /\ Issue(r, "rm", ok)
       /\ staged' = IF ok THEN staged \ {filename[r]} ELSE staged
       /\ IF ok
            THEN /\ ret' = [ret EXCEPT ![r] = {0}]
                 /\ Goto(r, "finally")
                 /\ UNCHANGED err
            ELSE /\ Throw(r, "rm")
                 /\ UNCHANGED ret
  /\ UNCHANGED <<versionFile, service, now, last, filename, currentVersion,
                 extractDir, verified, reported, promise, exitStatus>>

\* rm -rf extractDir /tmp/<filename>, through execAndLog, which rethrows;
\* then return 0.
Cleanup(r) ==
  /\ pc[r] = "cleanup"
  /\ \E ok \in BOOLEAN :
       /\ Issue(r, "rm", ok)
       /\ staged' = IF ok THEN staged \ {filename[r]} ELSE staged
       /\ IF ok
            THEN /\ ret' = [ret EXCEPT ![r] = {0}]
                 /\ Goto(r, "finally")
                 /\ UNCHANGED err
            ELSE /\ Throw(r, "rm")
                 /\ UNCHANGED ret
  /\ UNCHANGED <<versionFile, service, now, last, filename, currentVersion,
                 extractDir, verified, reported, promise, exitStatus>>

\* Faulty variant: the outer catch removes the version file.
CatchError_RemovesVersionFile(r) ==
  /\ pc[r] = "catch"
  /\ versionFile' = Absent
  /\ reported' = [reported EXCEPT ![r] = err[r]]
  /\ ret' = [ret EXCEPT ![r] = {1}]
  /\ Goto(r, "finally")
  /\ UNCHANGED <<service, staged, now, last, filename, currentVersion,
                 extractDir, cmds, verified, err, promise, exitStatus>>

\* Faulty variant: the outer catch tries to start the service, as the inner one does.
CatchError_RestartsService(r) ==
  /\ pc[r] = "catch"
  /\ \E ok \in BOOLEAN :
       /\ Issue(r, "restart", ok)
       /\ service' = IF ok THEN "running" ELSE service
  /\ reported' = [reported EXCEPT ![r] = err[r]]
  /\ ret' = [ret EXCEPT ![r] = {1}]
  /\ Goto(r, "finally")
  /\ UNCHANGED <<versionFile, staged, now, last, filename, currentVersion,
                 extractDir, verified, err, promise, exitStatus>>

\* catch (error) { log(`Error: ...`); return 1; }
CatchError(r) ==
  /\ pc[r] = "catch"
  /\ reported' = [reported EXCEPT ![r] = err[r]]
  /\ ret' = [ret EXCEPT ![r] = {1}]
  /\ Goto(r, "finally")
  /\ UNCHANGED <<globals, filename, currentVersion, extractDir, cmds,
                 verified, err, promise, exitStatus>>

\* finally { await browser.close(); ... }: a rejection here replaces the
\* value returned from the try or the catch.
CloseBrowser(r) ==
  /\ pc[r] = "finally"
  /\ \E ok \in BOOLEAN :
       promise' = [promise EXCEPT ![r] = IF ok THEN "resolved" ELSE "rejected"]
  /\ Goto(r, "settled")
  /\ UNCHANGED <<globals, filename, currentVersion, extractDir, cmds,
                 verified, err, reported, ret, exitStatus>>

\* Faulty variant: a rejected promise does not make the exit code 1.
ExitCode_IgnoresRejection(p, v) == IF p = "resolved" THEN v ELSE {0}

\* bin/bedrock-updater.js: .then(exitCode => process.exit(exitCode))
\* .catch(error => process.exit(1))
ExitCode(p, v) == IF p = "resolved" THEN v ELSE {1}

Main(r) ==
  /\ pc[r] = "settled"
  /\ exitStatus' = [exitStatus EXCEPT ![r] = ExitCode(promise[r], ret[r])]
  /\ Goto(r, "exited")
  /\ UNCHANGED <<globals, filename, currentVersion, extractDir, cmds,
                 verified, err, reported, ret, promise>>

\* What the version file holds, as getCurrentVersion would read it.
Stored == GetCurrentVersion(versionFile, TRUE)

\* What is known of run r when its process is gone: the file name it
\* resolved, the return it executed, its write of the version file, whether
\* it had found the file name new, whether what it had read is what the
\* version file holds, and whether it was killed.
Summary(r, killed) ==
  [fn |-> filename[r],
   ret |-> IF killed THEN {} ELSE ret[r],
   write |-> WriteOutcome(r),
   new |-> /\ filename[r] # NoName
           /\ pc[r] \notin BeforeComparison
           /\ currentVersion[r] # filename[r],
   accurate |-> currentVersion[r] = Stored,
   killed |-> killed]

\* The process is gone: its variables with it.
Gone(r) ==
  /\ pc' = [pc EXCEPT ![r] = "idle"]
  /\ filename' = [filename EXCEPT ![r] = NoName]
  /\ currentVersion' = [currentVersion EXCEPT ![r] = Null]
  /\ extractDir' = [extractDir EXCEPT ![r] = NoDir]
  /\ cmds' = [cmds EXCEPT ![r] = <<>>]
  /\ verified' = [verified EXCEPT ![r] = "none"]
  /\ err' = [err EXCEPT ![r] = NoErr]
  /\ reported' = [reported EXCEPT ![r] = NoErr]
  /\ ret' = [ret EXCEPT ![r] = {}]
  /\ promise' = [promise EXCEPT ![r] = "pending"]
  /\ exitStatus' = [exitStatus EXCEPT ![r] = {}]

\* process.exit has ended the process.
Reap(r) ==
  /\ pc[r] = "exited"
  /\ last' = Summary(r, FALSE)
  /\ Gone(r)
  /\ UNCHANGED <<versionFile, service, staged, now>>

\* The process is killed from outside, at any statement.
Kill(r) ==
  /\ pc[r] \notin {"idle", "exited"}
  /\ last' = Summary(r, TRUE)
  /\ Gone(r)
  /\ UNCHANGED <<versionFile, service, staged, now>>

\* Time passes.
Tick ==
  /\ now < MaxClock
  /\ now' = now + 1
  /\ UNCHANGED <<versionFile, service, staged, last, locals>>

Next ==
  \/ Tick
  \/ \E r \in Runs :
       \/ Start(r)
       \/ Launch(r)
       \/ Navigate(r)
       \/ SelectLinux(r)
       \/ AcceptEula(r)
       \/ GetLink(r)
       \/ ReadVersion(r)
       \/ Curl(r)
       \/ Mkdir(r)
       \/ Unzip(r)
       \/ CheckExecutable(r)
       \/ StopService(r)
       \/ CopyExecutable(r)
       \/ Chmod(r)
       \/ StartService(r)
       \/ SaveVersionWrite(r)
       \/ SaveVersionVerify(r)
       \/ RestartAfterError(r)
       \/ Cleanup(r)
       \/ CatchError(r)
       \/ CloseBrowser(r)
       \/ Main(r)
       \/ Reap(r)
       \/ Kill(r)

Spec == Init /\ [][Next]_vars

\* ----------------------------------------------------------------------
\* Overlapping invocations
\* ----------------------------------------------------------------------

\* The updater is started while another invocation may still be running:
\* nothing in the program looks for one.
StartOverlap(r) ==
  /\ pc[r] = "idle"
  /\ Goto(r, "launch")
  /\ UNCHANGED <<globals, filename, currentVersion, extractDir, cmds,
                 verified, err, reported, ret, promise, exitStatus>>

\* Two invocations overlap on a host whose version file is not there yet or
\* holds a file name.
InitOverlap == Init /\ versionFile \in {Absent, <<"1">>}

NextOverlap ==
  \/ Tick
  \/ \E r \in Runs :
       \/ StartOverlap(r)
       \/ Launch(r)
       \/ Navigate(r)
       \/ SelectLinux(r)
       \/ AcceptEula(r)
       \/ GetLink(r)
       \/ ReadVersion(r)
       \/ Curl(r)
       \/ Mkdir(r)
       \/ Unzip(r)
       \/ CheckExecutable(r)
       \/ StopService(r)
       \/ CopyExecutable(r)
       \/ Chmod(r)
       \/ StartService(r)
       \/ SaveVersionWrite(r)
       \/ SaveVersionVerify(r)
       \/ RestartAfterError(r)
       \/ Cleanup(r)
       \/ CatchError(r)
       \/ CloseBrowser(r)
       \/ Main(r)

SpecOverlap == InitOverlap /\ [][NextOverlap]_vars

\* ----------------------------------------------------------------------
\* Observations on a run's record
\* ----------------------------------------------------------------------

\* Entries a to b of run r's record, or nothing when it is shorter.
Window(r, a, b) ==
  IF Len(cmds[r]) >= b THEN SubSeq(cmds[r], a, b) ELSE <<>>

\* The systemctl verbs run r issued, in order.
IsServiceCall(e) == e.c \in {"stop", "start", "restart"}
ServiceCalls(r) ==
  LET calls == SelectSeq(cmds[r], IsServiceCall) IN
  [i \in 1..Len(calls) |-> IF calls[i].c = "stop" THEN "stop" ELSE "start"]

\* Statements after which the function has ended its try/catch.
Ended == {"finally", "settled", "exited"}

\* Download, extraction and validation, all successful (lines 211-223).
FetchedAndValidated ==
  <<Cmd("curl", TRUE), Cmd("mkdir", TRUE), Cmd("unzip", TRUE),
    Cmd("exists", TRUE)>>

\* Stop, copy, chmod and start, all successful (lines 228-238).
SwappedAndRestarted ==
  <<Cmd("stop", TRUE), Cmd("cp", TRUE), Cmd("chmod", TRUE),
    Cmd("start", TRUE)>>

\* ----------------------------------------------------------------------
\* Claims
\* ----------------------------------------------------------------------

\* C1 (state part): wherever a run's record holds a write of the version
\* file, the four commands right before it in that record are a successful
\* systemctl stop, cp, chmod and systemctl start, after a successful
\* download, extraction and validation.
C1_WriteFollowsRestart ==
  \A r \in Runs : \A i \in 1..Len(cmds[r]) :
    cmds[r][i].c = "write" =>
      /\ i = 9
      /\ Window(r, 1, 4) = FetchedAndValidated
      /\ Window(r, 5, 8) = SwappedAndRestarted

\* C1 (step part): a step that changes the version file is the write of a
\* run whose record ends with the successful stop, cp, chmod and start.
C1_FileChangedOnlyBySave ==
  versionFile' # versionFile =>
    \E r \in Runs :
      /\ Len(cmds[r]) = 8
      /\ Window(r, 5, 8) = SwappedAndRestarted
      /\ cmds'[r] = Append(cmds[r], Cmd("write", TRUE))
      /\ versionFile' = filename[r]

\* C1: the version record is written only after, in the same run,
\* systemctl stop, the copy and chmod of the new executable and systemctl
\* start all succeeded; no run whose replace or restart did not complete
\* writes it.
C1_SaveOnlyAfterRestart ==
  []C1_WriteFollowsRestart /\ [][C1_FileChangedOnlyBySave]_vars

\* C1 witness: a run has stopped, replaced, restarted and then written a
\* version that was not the recorded one.
C1_Witness ==
  \E r \in Runs :
    /\ Has(r, "write", TRUE)
    /\ currentVersion[r] # filename[r]
    /\ versionFile = filename[r]

\* C2 (state part): a run whose current version equals the file name of the
\* link has issued nothing and has executed return 0; a run that has not yet
\* compared has issued nothing; the process exits 0 when the promise
\* resolves.
C2_EqualVersionDoesNothing ==
  \A r \in Runs :
    /\ pc[r] \in BeforeComparison => cmds[r] = <<>>
    /\ currentVersion[r] = filename[r] =>
         /\ cmds[r] = <<>>
         /\ pc[r] \in Ended
         /\ ret[r] = {0}
         /\ (pc[r] = "exited" /\ promise[r] = "resolved")
              => exitStatus[r] = {0}

\* C2 (step part): no step of such a run changes the version file, the
\* service or the staging area.
C2_EqualVersionChangesNothing ==
  (\E r \in Runs : currentVersion[r] = filename[r]) =>
    /\ versionFile' = versionFile
    /\ service' = service
    /\ staged' = staged

\* C2: when the resolved file name equals the stored current version the run
\* downloads nothing, extracts nothing, issues no service command, replaces
\* nothing, writes no version record and returns 0; the comparison comes
\* before the first download or service command.
C2_NoUpdateNeeded ==
  []C2_EqualVersionDoesNothing /\ [][C2_EqualVersionChangesNothing]_vars

\* C2 witness: a run found the version file, trimmed, equal to the file
\* name and its process exited 0.
C2_Witness ==
  \E r \in Runs :
    /\ pc[r] = "exited"
    /\ currentVersion[r] = filename[r]
    /\ versionFile # filename[r]
    /\ exitStatus[r] = {0}

\* C3: systemctl stop is the fifth operation of a run, after a successful
\* curl, mkdir, unzip and existence check; when bedrock_server is missing
\* from the extraction the run issues no service command and returns 1.
C3_StopOnlyAfterValidation ==
  \A r \in Runs :
    /\ \A i \in 1..Len(cmds[r]) :
         cmds[r][i].c = "stop" =>
           i = 5 /\ Window(r, 1, 4) = FetchedAndValidated
    /\ Has(r, "exists", FALSE) =>
         /\ ServiceCalls(r) = <<>>
         /\ pc[r] \in {"catch"} \cup Ended
         /\ pc[r] \in Ended => ret[r] = {1}
         /\ pc[r] = "exited" => exitStatus[r] = {1}

\* C3 witness: a run whose extraction lacked bedrock_server has exited 1.
C3_Witness ==
  \E r \in Runs :
    /\ Has(r, "exists", FALSE)
    /\ pc[r] = "exited"
    /\ exitStatus[r] = {1}

\* C4: when systemctl stop succeeded and cp or chmod failed, the run has
\* issued systemctl start before it reaches the outer catch: its service
\* calls are stop, start; it writes no version record and returns 1.
C4_RestartBeforeFailure ==
  \A r \in Runs :
    (Has(r, "stop", TRUE) /\ (Has(r, "cp", FALSE) \/ Has(r, "chmod", FALSE)))
      => \/ pc[r] = "restart"
         \/ /\ pc[r] \in {"catch"} \cup Ended
            /\ ServiceCalls(r) = <<"stop", "start">>
            /\ cmds[r][Len(cmds[r])].c = "restart"
            /\ Count(r, "write") = 0
            /\ pc[r] \in Ended => ret[r] = {1}
            /\ pc[r] = "exited" => exitStatus[r] = {1}

\* C4 witness: chmod failed after a successful stop, the service was
\* started again and the process exited 1.
C4_Witness ==
  \E r \in Runs :
    /\ Has(r, "stop", TRUE)
    /\ Has(r, "chmod", FALSE)
    /\ Has(r, "restart", TRUE)
    /\ service = "running"
    /\ pc[r] = "exited"
    /\ exitStatus[r] = {1}

\* The commands of the stopped-service window that failed in run r.
FailedInWindow(r) == {c \in {"cp", "chmod", "start"} : Has(r, c, FALSE)}

\* C5: a failed cp, chmod or systemctl start (line 238) is followed by
\* exactly one restart attempt, and no restart is attempted otherwise;
\* whatever the restart does, the error that is thrown on, logged by the
\* outer catch and answered with return 1 is the original one.
C5_OneRestartOriginalError ==
  \A r \in Runs :
    LET failed == FailedInWindow(r) IN
    /\ failed = {} => Count(r, "restart") = 0
    /\ failed # {} =>
         /\ Cardinality(failed) = 1
         /\ \/ pc[r] = "restart" /\ Count(r, "restart") = 0
            \/ /\ pc[r] \in {"catch"} \cup Ended
               /\ Count(r, "restart") = 1
               /\ err[r] \in failed
               /\ pc[r] \in Ended => (reported[r] \in failed /\ ret[r] = {1})
               /\ pc[r] = "exited" => exitStatus[r] = {1}

\* C5 witness: cp failed, the restart failed too, and the run reported the
\* cp error.
C5_Witness ==
  \E r \in Runs :
    /\ Has(r, "cp", FALSE)
    /\ Has(r, "restart", FALSE)
    /\ reported[r] = "cp"
    /\ pc[r] = "exited"
    /\ exitStatus[r] = {1}

SecondRunSameCandidate(r) ==
  /\ last.fn # NoName
  /\ filename[r] = last.fn
  /\ pc[r] \notin BeforeComparison

C7_SecondRunIdle ==
  \A r \in Runs :
    (/\ SecondRunSameCandidate(r)
     /\ last.ret = {0}
     /\ last.write # "failed"
     /\ currentVersion[r] # Null)
      => /\ currentVersion[r] = filename[r]
         /\ cmds[r] = <<>>
         /\ pc[r] \in Ended
         /\ ret[r] = {0}
         /\ (pc[r] = "exited" /\ promise[r] = "resolved")
              => exitStatus[r] = {0}

\* C7 as amended (step part): no step taken while such a second run exists
\* changes the version file, the service or the staging area.
C7_SecondRunChangesNothing ==
  (\E r \in Runs :
     /\ SecondRunSameCandidate(r)
     /\ last.ret = {0}
     /\ last.write # "failed"
     /\ currentVersion[r] # Null)
    => /\ versionFile' = versionFile
       /\ service' = service
       /\ staged' = staged

C8_CleanupFailureNotFatal ==
  \A r \in Runs :
    (Has(r, "rm", FALSE) /\ pc[r] \in Ended) => ret[r] = {0}

\* The errors of the link resolver part (lines 115-184, 273).
ResolutionErrors ==
  {"navigation", "Could not find Linux/Ubuntu option",
   "Could not find agreement checkbox", "waitForSelector timeout",
   "Download link not found"}

\* Statements of the link resolver part.
Resolving == {"launch", "goto", "radio", "checkbox", "link"}

\* C9 (state part): a run whose resolution failed has issued no command or
\* file operation, is in or past the outer catch, and returns 1 with that
\* error logged.
C9_ResolutionFailureIssuesNothing ==
  \A r \in Runs :
    err[r] \in ResolutionErrors =>
      /\ cmds[r] = <<>>
      /\ filename[r] = NoName
      /\ pc[r] \in {"catch"} \cup Ended
      /\ pc[r] \in Ended => (ret[r] = {1} /\ reported[r] = err[r])
      /\ pc[r] = "exited" => exitStatus[r] = {1}

\* C9 (step part): no step taken while a run is resolving, or has failed to
\* resolve, changes the version file, the service or the staging area.
C9_ResolutionFailureChangesNothing ==
  (\E r \in Runs :
     \/ pc[r] \in Resolving
     \/ err[r] \in ResolutionErrors
     \/ err'[r] \in ResolutionErrors)
    => /\ versionFile' = versionFile
       /\ service' = service
       /\ staged' = staged

\* C9: a resolution failure (navigation, platform option, agreement
\* checkbox, download link) leaves the version record and the service
\* untouched: no stop, start, download or write, and the run returns 1.
C9_ResolutionFailure ==
  []C9_ResolutionFailureIssuesNothing
    /\ [][C9_ResolutionFailureChangesNothing]_vars

\* C9 witness: the agreement checkbox was not found and the process
\* exited 1.
C9_Witness ==
  \E r \in Runs :
    /\ reported[r] = "Could not find agreement checkbox"
    /\ cmds[r] = <<>>
    /\ pc[r] = "exited"
    /\ exitStatus[r] = {1}

\* The record of a run that went through the whole update and its cleanup.
UpdatedRecord(r) ==
  /\ Len(cmds[r]) = 10
  /\ Window(r, 1, 4) = FetchedAndValidated
  /\ Window(r, 5, 8) = SwappedAndRestarted
  /\ cmds[r][9].c = "write"
  /\ cmds[r][10] = Cmd("rm", TRUE)

\* C10: the process exits 0 exactly when the promise resolved with the 0 of
\* line 201 (NoUpdateNeeded) or of line 266 (Updated), and exits 1 when the
\* catch returned 1 and when the promise was rejected: by a failed launch,
\* before the try, or by a failed browser.close() in the finally block,
\* whatever the try had returned.
C10_ExitStatus ==
  \A r \in Runs :
    /\ pc[r] \in {"settled", "exited"} =>
         /\ promise[r] \in {"resolved", "rejected"}
         /\ promise[r] = "resolved" => ret[r] # {}
         /\ ret[r] = {} => cmds[r] = <<>>
         /\ ret[r] = {0} =>
              \/ currentVersion[r] = filename[r] /\ cmds[r] = <<>>
              \/ UpdatedRecord(r)
         /\ ret[r] = {1} => (reported[r] # NoErr /\ ~UpdatedRecord(r))
    /\ pc[r] = "exited" =>
         /\ exitStatus[r] \in {{0}, {1}}
         /\ exitStatus[r] = {0} <=> (promise[r] = "resolved" /\ ret[r] = {0})
    /\ pc[r] # "exited" => exitStatus[r] = {}

\* C10 witness: the try returned 0 after an update, browser.close() was
\* rejected and the process exited 1.
C10_Witness ==
  \E r \in Runs :
    /\ pc[r] = "exited"
    /\ UpdatedRecord(r)
    /\ ret[r] = {0}
    /\ promise[r] = "rejected"
    /\ exitStatus[r] = {1}

\* C11: after a successful systemctl start, a failed write of the version
\* file or a read-back that differs from what was written raises nothing:
\* the run goes on to the cleanup with no error pending, the failure handler
\* does not run, and the return value is the one the cleanup alone decides,
\* 0 whenever the cleanup command succeeds.
C11_SoftPersist ==
  \A r \in Runs :
    (Has(r, "write", FALSE) \/ verified[r] = "mismatch") =>
      /\ Window(r, 5, 8) = SwappedAndRestarted
      /\ pc[r] \in {"cleanup", "catch"} \cup Ended
      /\ err[r] \in {NoErr, "rm"}
      /\ Count(r, "restart") = 0
      /\ pc[r] \in Ended =>
           /\ ret[r] = {0} <=> Has(r, "rm", TRUE)
           /\ ret[r] = {1} <=> Has(r, "rm", FALSE)
      /\ (pc[r] = "exited" /\ Has(r, "rm", TRUE) /\ promise[r] = "resolved")
           => exitStatus[r] = {0}

\* C11 witness: the write of the version file failed after the restart, the
\* version file does not hold the new version, and the process exited 0.
C11_Witness ==
  \E r \in Runs :
    /\ Has(r, "start", TRUE)
    /\ Has(r, "write", FALSE)
    /\ versionFile # filename[r]
    /\ pc[r] = "exited"
    /\ exitStatus[r] = {0}

\* Run r follows a run that had found the same file name new and ended,
\* killed or by its return, without reaching its write of the version file;
\* r has made its own comparison.
RetryOfUnfinished(r) ==
  /\ last.new
  /\ last.write = "none"
  /\ filename[r] = last.fn
  /\ pc[r] \notin BeforeComparison

C12_RetryRepeatsUpdate ==
  \A r \in Runs :
    (RetryOfUnfinished(r) /\ last.accurate) =>
      /\ currentVersion[r] # filename[r]
      /\ pc[r] = "curl" <=> cmds[r] = <<>>
      /\ cmds[r] # <<>> => cmds[r][1].c = "curl"
      /\ (Len(cmds[r]) = 10 /\ \A i \in 1..10 : cmds[r][i].ok) =>
           /\ UpdatedRecord(r)
           /\ pc[r] \in Ended
           /\ ret[r] = {0}
           /\ versionFile = filename[r]
           /\ (pc[r] = "exited" /\ promise[r] = "resolved")
                => exitStatus[r] = {0}

\* C12 (step part): the version file changes only in the step that is a
\* run's successful write of it; killing a run, at any statement, and every
\* step of a run that ends in return 1 before its write leave it as it was.
C12_OnlyPersistChangesRecord ==
  versionFile' # versionFile =>
    \E r \in Runs : pc[r] = "save" /\ pc'[r] = "verify"

Names(r) == [i \in 1..Len(cmds[r]) |-> cmds[r][i].c]

\* Run r resolved a file name, read no current version, and came to the end
\* of its try without a failed operation or an error.
FirstInstallSucceeded(r) ==
  /\ filename[r] # NoName
  /\ currentVersion[r] = Null
  /\ err[r] = NoErr
  /\ \A i \in 1..Len(cmds[r]) : cmds[r][i].ok
  /\ pc[r] \in Ended

\* C13: with no version record read and every step successful, the run
\* issues curl, mkdir, unzip, the existence check, stop, cp, chmod, start,
\* the write and rm, in this order, so its service calls are exactly stop,
\* start with the replace between them; it returns 0 and the version file
\* holds exactly the file name.
C13_FirstInstall ==
  \A r \in Runs :
    FirstInstallSucceeded(r) =>
      /\ Names(r) = <<"curl", "mkdir", "unzip", "exists", "stop", "cp",
                      "chmod", "start", "write", "rm">>
      /\ ServiceCalls(r) = <<"stop", "start">>
      /\ ret[r] = {0}
      /\ versionFile = filename[r]
      /\ service = "running"
      /\ (pc[r] = "exited" /\ promise[r] = "resolved") => exitStatus[r] = {0}

\* C13 witness: the first run ever, having read no version, exited 0 with
\* the version file holding the file name.
C13_Witness ==
  \E r \in Runs :
    /\ last = NoRun
    /\ FirstInstallSucceeded(r)
    /\ versionFile = filename[r]
    /\ pc[r] = "exited"
    /\ exitStatus[r] = {0}

\* The errors of the download and the extraction (lines 211-220).
FetchErrors == {"curl", "mkdir", "unzip"}

\* C14 (state part): a run whose curl, mkdir or unzip failed has issued no
\* systemctl command, no write of the version file and no rm; an archive it
\* had downloaded is still in the staging area; it returns 1.
C14_FetchFailureIssuesNothingMore ==
  \A r \in Runs :
    err[r] \in FetchErrors =>
      /\ Has(r, err[r], FALSE)
      /\ cmds[r][Len(cmds[r])] = Cmd(err[r], FALSE)
      /\ ServiceCalls(r) = <<>>
      /\ Count(r, "write") = 0
      /\ Count(r, "rm") = 0
      /\ Has(r, "curl", TRUE) => filename[r] \in staged
      /\ pc[r] \in {"catch"} \cup Ended
      /\ pc[r] \in Ended => (ret[r] = {1} /\ reported[r] = err[r])
      /\ pc[r] = "exited" => exitStatus[r] = {1}

\* C14 (step part): after the failure no step changes the version file, the
\* service or the staging area.
C14_FetchFailureChangesNothing ==
  (\E r \in Runs : err[r] \in FetchErrors)
    => /\ versionFile' = versionFile
       /\ service' = service
       /\ staged' = staged

\* C14: a download or extraction failure ends the run with return 1, the
\* service untouched, no version record written and no cleanup issued: the
\* staging archive of the failed attempt stays where it is.
C14_FetchFailure ==
  []C14_FetchFailureIssuesNothingMore
    /\ [][C14_FetchFailureChangesNothing]_vars

\* C14 witness: unzip failed on a downloaded archive, the process exited 1
\* and the archive is still staged.
C14_Witness ==
  \E r \in Runs :
    /\ reported[r] = "unzip"
    /\ filename[r] \in staged
    /\ service = "running"
    /\ pc[r] = "exited"
    /\ exitStatus[r] = {1}

\* C15 (state part): in a run's record, systemctl stop comes once, fifth;
\* cp and chmod come only after a successful stop and before any systemctl
\* start; a systemctl start comes only after a successful stop; nothing
\* follows the handler's start, and no service command or replace follows a
\* successful start.
C15_WindowOrder ==
  \A r \in Runs : \A i \in 1..Len(cmds[r]) :
    LET c == cmds[r][i].c IN
    /\ c \in {"stop", "cp", "chmod", "start", "restart"} => i >= 5
    /\ c = "stop" => i = 5
    /\ c \in {"cp", "chmod", "start", "restart"} =>
         cmds[r][5] = Cmd("stop", TRUE)
    /\ c \in {"cp", "chmod"} =>
         \A k \in 1..(i - 1) : cmds[r][k].c \notin {"start", "restart"}
    /\ c = "restart" => i = Len(cmds[r])
    /\ cmds[r][i] = Cmd("start", TRUE) =>
         \A k \in (i + 1)..Len(cmds[r]) :
           cmds[r][k].c \notin {"stop", "cp", "chmod", "start", "restart"}

\* C15 (step part): the state of the service changes only in a step of a
\* run that is at one of its three systemctl commands.
C15_ServiceChangedInWindow ==
  service' # service =>
    \E r \in Runs :
      /\ pc[r] \in {"stop", "start", "restart"}
      /\ Len(cmds'[r]) = Len(cmds[r]) + 1
      /\ IsServiceCall(cmds'[r][Len(cmds'[r])])

\* C15: the executable and the service are touched only in the window
\* stop, replace, start of a run: cp and chmod after that run's successful
\* stop and before any of its starts, and no service command outside.
C15_StopReplaceStartWindow ==
  []C15_WindowOrder /\ [][C15_ServiceChangedInWindow]_vars

\* C15 witness: a run stopped the service, copied, failed to chmod and
\* started the service again from its handler.
C15_Witness ==
  \E r \in Runs :
    /\ Names(r) = <<"curl", "mkdir", "unzip", "exists", "stop", "cp",
                    "chmod", "restart">>
    /\ Has(r, "restart", TRUE)
    /\ service = "running"
    /\ pc[r] = "exited"

\* C18: when systemctl stop fails it is the last thing the run issues: no
\* cp, chmod, start, restart, write or rm follows, the state of the service
\* is left to systemd, and the run returns 1 with the stop error.
C18_StopFailure ==
  \A r \in Runs :
    Has(r, "stop", FALSE) =>
      /\ Len(cmds[r]) = 5
      /\ Window(r, 1, 4) = FetchedAndValidated
      /\ err[r] = "stop"
      /\ ServiceCalls(r) = <<"stop">>
      /\ filename[r] \in staged
      /\ pc[r] \in {"catch"} \cup Ended
      /\ pc[r] \in Ended => (ret[r] = {1} /\ reported[r] = "stop")
      /\ pc[r] = "exited" => exitStatus[r] = {1}

\* C18 witness: systemctl stop failed and the process exited 1.
C18_Witness ==
  \E r \in Runs :
    /\ Has(r, "stop", FALSE)
    /\ reported[r] = "stop"
    /\ pc[r] = "exited"
    /\ exitStatus[r] = {1}

\* The unknown current version: null or the empty string.
Unknown == {Null, <<>>}

\* C16 (state part): a run that has resolved a file name and holds an
\* unknown current version after its comparison has gone on to the
\* download: it is at curl with nothing issued yet, or curl is the first
\* thing it issued; it has not returned 0 with nothing done.
C16_UnknownGoesToDownload ==
  \A r \in Runs :
    (/\ filename[r] # NoName
     /\ pc[r] \notin BeforeComparison
     /\ currentVersion[r] \in Unknown)
      => /\ pc[r] = "curl" <=> cmds[r] = <<>>
         /\ cmds[r] # <<>> => cmds[r][1].c = "curl"
         /\ ~(ret[r] = {0} /\ cmds[r] = <<>>)

\* C16 (step part): the step that reads the version file gives an unknown
\* value when the file is absent, empty or blank, and null when the read
\* fails (the value differs from the trimmed content); it raises nothing
\* and the run goes on to curl.
C16_ReadGivesUnknown ==
  \A r \in Runs :
    (pc[r] = "readVersion" /\ pc'[r] \notin {"readVersion", "idle"}) =>
      /\ err'[r] = NoErr
      /\ (versionFile = Absent \/ Trim(versionFile) = <<>>)
           => currentVersion'[r] \in Unknown
      /\ currentVersion'[r] # Stored => currentVersion'[r] = Null
      /\ currentVersion'[r] \in Unknown => pc'[r] = "curl"

\* C16: an absent, unreadable or empty version record is read as unknown,
\* without an error, and is never equal to a candidate: the run downloads.
C16_UnknownVersion ==
  []C16_UnknownGoesToDownload /\ [][C16_ReadGivesUnknown]_vars

\* C16 witness: the version file holds the very file name the run resolved,
\* the read failed and gave null, and the run has downloaded.
C16_Witness ==
  \E r \in Runs :
    /\ currentVersion[r] = Null
    /\ WriteOutcome(r) = "none"
    /\ Stored = filename[r]
    /\ Has(r, "curl", TRUE)

\* ----------------------------------------------------------------------
\* Overlapping runs
\* ----------------------------------------------------------------------

\* C17: no two runs, overlapping ones included, use the same extraction
\* directory name.  Violated: the name is the clock value alone, and two
\* overlapping runs can read the same value.
C17_DistinctExtractDirs ==
  \A r \in Runs, q \in Runs :
    (r # q /\ extractDir[r] # NoDir) => extractDir[r] # extractDir[q]

\* Run q has downloaded its archive and not yet extracted it.
AwaitingExtraction(q) == pc[q] \in {"mkdir", "unzip"} /\ Has(q, "curl", TRUE)

\* C19 (no lock): a run that has reached its cleanup or its download can
\* always take that step, whatever the other runs are doing.
C19_NoLock ==
  \A r \in Runs :
    /\ pc[r] = "cleanup" => ENABLED Cleanup(r)
    /\ pc[r] = "curl" => ENABLED Curl(r)

\* C19 (shared staging path): when a run's cleanup succeeds, or its download
\* starts over, while another run with the same file name has downloaded and
\* not yet extracted, it is that run's archive that is removed or written.
C19_SharedStagingStep ==
  \A r \in Runs : \A q \in Runs \ {r} :
    (filename[q] = filename[r] /\ AwaitingExtraction(q)) =>
      /\ (pc[r] = "cleanup" /\ pc'[r] = "finally") => filename[q] \notin staged'
      /\ (pc[r] = "curl" /\ pc'[r] = "mkdir") => filename[q] \in staged'
      /\ (pc[r] \in {"cleanup", "curl"} /\ pc'[r] # pc[r])
           => AwaitingExtraction(q)'

\* C19 (consequence): an extraction that finds its archive gone fails.
C19_ExtractionOfRemovedFails ==
  \A q \in Runs :
    (pc[q] = "unzip" /\ filename[q] \notin staged /\ pc'[q] # "unzip")
      => pc'[q] = "catch" /\ err'[q] = "unzip"

\* C19: overlapping runs with the same candidate share the staging archive
\* with no lock, so one run's cleanup or download acts on the archive the
\* other has downloaded and not yet extracted.
C19_SharedStaging ==
  /\ []C19_NoLock
  /\ [][C19_SharedStagingStep /\ C19_ExtractionOfRemovedFails]_vars

\* C19 witness: run q has downloaded its archive, has its own extraction
\* directory and is about to extract; run r, with the same file name and a
\* different extraction directory, has removed the archive in its cleanup.
C19_Witness ==
  \E r \in Runs : \E q \in Runs \ {r} :
    /\ filename[q] = filename[r]
    /\ pc[q] = "unzip" /\ Has(q, "curl", TRUE)
    /\ Has(r, "rm", TRUE)
    /\ extractDir[q] # NoDir /\ extractDir[r] # NoDir
    /\ extractDir[q] # extractDir[r]
    /\ filename[q] \notin staged

=============================================================================
